---------------------------- MODULE Spec2Model ----------------------------
(***************************************************************************)
(* One identification call of MusicJooBot's pipeline (search_engine.py),   *)
(* with the adapters it calls (providers.py, audio_processing.py): Spec.   *)
(* Two such calls running concurrently on one disk: SpecConc.  One update  *)
(* handled by the transport (bot.py), which makes the call: SpecBot.       *)
(*                                                                         *)
(* Python strings are sequences of one-character strings.  Python's None   *)
(* is the value None below, which no string of the model equals.  Every    *)
(* upstream service is a black box: each request draws its answer from a   *)
(* small set (a network failure, a non-200 status, or a body).             *)
(***************************************************************************)
EXTENDS Integers, Sequences, FiniteSets, TLC

VARIABLES
    pc,         \* position of the call in the code
    entry,      \* "audio" (identify_from_audio_input) | "text" (identify_from_text) | "none"
    env,        \* the environment: which optional credentials are set
    input,      \* input_path_or_url, or query
    files,      \* paths of the temporary files that exist on disk
    wav_path,   \* identify_from_audio_input's wav_path
    mbid,       \* locals of the two entry points, named as in the source
    title,
    artists,
    cover_url,
    sp_link,
    sp_prev,
    lyrics,
    ret,        \* what the call gave its caller: pending, absent, result or error
    calls,      \* the external requests made so far, in order
    pick,       \* the recording resolved: `pick` of identify_from_text, `info` of the audio path
    item,       \* items[0] of the commercial search, once one was taken
    txt,        \* the lyrics text the lookup service answered with
    matches,    \* `matches` of the audio path: what acoustid_lookup returned
    tmpdir,     \* extract_audio_from_url's tmpdir while its `with` block is open
    other,      \* the frame of a second call running concurrently with this one
    bot         \* the transport handler (bot.py) that made the call, if one did

vars == <<pc, entry, env, input, files, wav_path, mbid, title, artists,
          cover_url, sp_link, sp_prev, lyrics, ret, calls, pick, item, txt,
          matches, tmpdir, other, bot>>

---------------------------------------------------------------------------
(* Bounds of the model. *)

\* Longest list the metadata-database text search answers with.
MaxRecordings == 2
\* Longest lyrics text, in lines.
MaxLines == 3

---------------------------------------------------------------------------
(* Strings. *)

None == <<"<None>">>

\* Python truthiness of an Optional[str]: neither None nor "".
Truthy(s) == s # None /\ s # <<>>

\* Python's `a or b` on Optional[str].
Or(a, b) == IF Truthy(a) THEN a ELSE b

\* str(x) inside an f-string: None prints as "None".
Fmt(s) == IF s = None THEN <<"N", "o", "n", "e">> ELSE s

IsSpace(c) == c \in {" ", "\n", "\t"}

RECURSIVE LStrip(_)
LStrip(s) == IF s # <<>> /\ IsSpace(Head(s)) THEN LStrip(Tail(s)) ELSE s

RECURSIVE RStrip(_)
RStrip(s) ==
    IF s # <<>> /\ IsSpace(s[Len(s)]) THEN RStrip(SubSeq(s, 1, Len(s) - 1)) ELSE s

\* str.strip()
Strip(s) == RStrip(LStrip(s))

\* re.IGNORECASE, over the letters the scheme prefix has.
LowerChar(c) ==
    CASE c = "H" -> "h" [] c = "T" -> "t" [] c = "P" -> "p" [] c = "S" -> "s"
      [] OTHER -> c

Lower(s) == [i \in 1..Len(s) |-> LowerChar(s[i])]

StartsWith(s, p) == Len(s) >= Len(p) /\ SubSeq(s, 1, Len(p)) = p

\* s.split(",")[0]: what precedes the first comma.
RECURSIVE SplitFirst(_)
SplitFirst(s) ==
    IF s = <<>> \/ Head(s) = "," THEN <<>> ELSE <<Head(s)>> \o SplitFirst(Tail(s))

\* ", ".join(names)
RECURSIVE Join(_)
Join(names) ==
    IF names = <<>> THEN <<>>
    ELSE IF Len(names) = 1 THEN names[1]
    ELSE names[1] \o <<",", " ">> \o Join(Tail(names))

\* ", ".join(a.get("name", "") for a in credit if a.get("name"))
JoinCredit(credit) == Join(SelectSeq(credit, Truthy))

\* artists.split(",")[0].strip() if artists else ""
FirstArtist(a) == IF Truthy(a) THEN Strip(SplitFirst(a)) ELSE <<>>

is_urlCaseSensitive(text) ==
    LET t == Strip(text)
    IN  \/ StartsWith(t, <<"h", "t", "t", "p", ":", "/", "/">>)
        \/ StartsWith(t, <<"h", "t", "t", "p", "s", ":", "/", "/">>)

\* audio_processing.is_url: re.match(r'https?://', text.strip(), re.IGNORECASE)
is_url(text) ==
    LET t == Lower(Strip(text))
    IN  \/ StartsWith(t, <<"h", "t", "t", "p", ":", "/", "/">>)
        \/ StartsWith(t, <<"h", "t", "t", "p", "s", ":", "/", "/">>)

---------------------------------------------------------------------------
(* What the upstream services answer with. *)

TitleY == <<"Y">>
NameA == <<"A">>
NameB == <<"B">>
\* One credited artist whose name holds a comma.
NameCD == <<"C", ",", " ", "D">>
Unknown == <<"U", "n", "k", "n", "o", "w", "n">>

Mbid1 == <<"m", "1">>
Mbid2 == <<"m", "2">>
Rel1 == <<"r", "1">>

\* artist-credit lists: each entry is its "name", None when it has none.
Credits == {<<>>, <<None>>, <<NameA>>, <<NameA, NameB>>, <<NameCD>>}

\* A metadata-database recording as search and lookup answer it.
Recordings ==
    [id : {Mbid1}, title : {None, TitleY}, credit : Credits,
     releases : {<<>>, <<Rel1>>}]

\* A second entry of a search answer, unlike every first entry.
OtherRecording ==
    [id |-> Mbid2, title |-> <<"Z">>, credit |-> <<NameB>>, releases |-> <<>>]

\* The answers of the text search: at most MaxRecordings entries.
RECURSIVE PadList(_, _)
PadList(l, n) == IF Len(l) >= n THEN l ELSE PadList(Append(l, OtherRecording), n)

RecordingLists ==
    {<<>>} \cup {PadList(<<r>>, n) : r \in Recordings, n \in 1..MaxRecordings}

\* `pick` / `info` before a recording was resolved.
NoPick == [id |-> None, title |-> None, credit |-> <<>>, releases |-> <<>>]

\* Fingerprint-service matches: a score (0 when the field is missing) and the
\* ids of the associated recordings.
MatchLists ==
    { <<>>,
      <<[score |-> 1, recordings |-> <<Mbid1>>]>>,
      <<[score |-> 1, recordings |-> <<Mbid1>>], [score |-> 2, recordings |-> <<Mbid2, Mbid1>>]>>,
      <<[score |-> 2, recordings |-> <<Mbid1>>], [score |-> 2, recordings |-> <<Mbid2>>]>>,
      <<[score |-> 0, recordings |-> <<Mbid1>>], [score |-> 1, recordings |-> <<>>]>> }

SpLink == <<"s", "p", "L">>
SpPrev == <<"s", "p", "P">>
SpImg == <<"s", "p", "I">>

\* A commercial-catalog track item.
SpItems ==
    [some : {TRUE},
     link : {None, SpLink}, preview : {None, SpPrev},
     images : {<<>>, <<SpImg>>},
     artists : {<<>>, <<NameA>>},
     name : {None, TitleY}]

NoItem ==
    [some |-> FALSE, link |-> None, preview |-> None, images |-> <<>>,
     artists |-> <<>>, name |-> None]

\* A lyrics text: its lines, each with `len` characters between `pad`
\* characters of surrounding whitespace.
LyricLines ==
    {[pad |-> 1, len |-> 0], [pad |-> 1, len |-> 200], [pad |-> 0, len |-> 300]}

RECURSIVE SeqsUpTo(_, _)
SeqsUpTo(S, n) ==
    IF n = 0 THEN {<<>>}
    ELSE LET shorter == SeqsUpTo(S, n - 1)
         IN  shorter \cup {Append(s, x) : s \in shorter, x \in S}

LyricTexts == SeqsUpTo(LyricLines, MaxLines)

---------------------------------------------------------------------------
(* providers.py: the pure parts. *)

\* The fair-use limit of lyrics_best_effort.
ExcerptLimit == 500

RECURSIVE SumLen(_)
SumLen(out) == IF out = <<>> THEN 0 ELSE Head(out).len + SumLen(Tail(out))

\* len(txt): the lines and the newlines between them.
RECURSIVE RawLen(_)
RawLen(t) ==
    IF t = <<>> THEN 0
    ELSE Head(t).pad + Head(t).len + (IF Len(t) > 1 THEN 1 ELSE 0) + RawLen(Tail(t))

\* len("\n".join(out))
JoinedLen(out) == SumLen(out) + (IF Len(out) > 1 THEN Len(out) - 1 ELSE 0)

\* The lines of txt with their place in it.
Numbered(t) == [i \in 1..Len(t) |-> [src |-> i, len |-> t[i].len]]

\* txt.strip().splitlines(): leading and trailing blank lines go.
RECURSIVE DropBlankHead(_)
DropBlankHead(ls) ==
    IF ls # <<>> /\ Head(ls).len = 0 THEN DropBlankHead(Tail(ls)) ELSE ls

RECURSIVE DropBlankTail(_)
DropBlankTail(ls) ==
    IF ls # <<>> /\ ls[Len(ls)].len = 0
    THEN DropBlankTail(SubSeq(ls, 1, Len(ls) - 1)) ELSE ls

StripSplitLines(t) == DropBlankTail(DropBlankHead(Numbered(t)))

\* The loop of lyrics_best_effort: append the stripped line when it is not
\* blank, then stop once the lines kept hold more than ExcerptLimit characters.
RECURSIVE ExcerptLoop(_, _)
ExcerptLoop(ls, out) ==
    IF ls = <<>> THEN out
    ELSE LET out2 == IF Head(ls).len > 0 THEN Append(out, Head(ls)) ELSE out
         IN  IF SumLen(out2) > ExcerptLimit THEN out2
             ELSE ExcerptLoop(Tail(ls), out2)

\* The excerpt of a non-empty lyrics text: the lines kept, each with its
\* place in the text and its length stripped.
LyricsExcerpt(t) == ExcerptLoop(StripSplitLines(t), <<>>)

NoLyrics == [some |-> FALSE, lines |-> <<>>]

\* spotify_track_link_and_preview
spotify_track_link_and_preview(it) ==
    [link |-> it.link,
     preview |-> it.preview,
     cover |-> IF it.images # <<>> THEN it.images[1] ELSE None,
     artists |-> JoinCredit(it.artists),
     title |-> it.name]

\* The URL cover_art_from_release probes.
CoverUrl(release) ==
    <<"c", "a", "a", "/">> \o release \o <<"/", "f", "r", "o", "n", "t">>

TopUnsorted(ms) == ms[1]

\* sorted(matches, key=score, reverse=True)[0]: the first match of the
\* highest score.
Top(ms) ==
    LET best == CHOOSE i \in 1..Len(ms) :
                    /\ \A j \in 1..Len(ms) : ms[j].score <= ms[i].score
                    /\ \A j \in 1..(i - 1) : ms[j].score < ms[i].score
    IN  ms[best]

---------------------------------------------------------------------------
(* The call's inputs and its environment. *)

UrlInput == <<"h", "t", "t", "p", "s", ":", "/", "/", "x">>
UrlInputUpper == <<" ", "H", "T", "T", "P", ":", "/", "/", "x">>
PathInput == <<"/", "f">>

AudioInputs == {UrlInput, UrlInputUpper, PathInput}
Queries == {<<"q">>, <<"Y", " ", "A">>}

\* utils.get_env of the optional credentials: TRUE when set to a non-empty value.
Envs ==
    [ACOUSTID_API_KEY : BOOLEAN, SPOTIFY_CLIENT_ID : BOOLEAN,
     SPOTIFY_CLIENT_SECRET : BOOLEAN]

\* The names tempfile makes up.  They are opaque and never one that exists, so
\* the model takes the first one that is free: one name for each of two calls.
TmpNames == <<"1", "2">>

\* Temporary paths of extract_audio_from_url: the directory of
\* tempfile.TemporaryDirectory(), the download and the transcode inside it,
\* and the file of tempfile.mkstemp(suffix=".wav").
TmpDir(d) == <<"tmpdir", d>>
TmpDl(d) == <<"tmpdir", d, "/dl">>
TmpAudio(d) == <<"tmpdir", d, "/audio.wav">>
FinalPath(n) == <<"mkstemp", n, ".wav">>
TmpDirFiles(d) == {TmpDir(d), TmpDl(d), TmpAudio(d)}

\* `tmpdir` outside the `with` block.
NoDir == ""

\* The first name that is not taken.
Fresh(taken) ==
    TmpNames[CHOOSE i \in 1..Len(TmpNames) :
                /\ TmpNames[i] \notin taken
                /\ \A j \in 1..(i - 1) : TmpNames[j] \in taken]

\* The names of the temporary directories, and of the mkstemp files, that exist.
DirNames == {TmpNames[i] : i \in {j \in 1..Len(TmpNames) : TmpDir(TmpNames[j]) \in files}}
FinalNames == {TmpNames[i] : i \in {j \in 1..Len(TmpNames) : FinalPath(TmpNames[j]) \in files}}

\* extract_audio_from_file's out_wav: in_path + ".wav"
OutWav(in_path) == in_path \o <<".", "w", "a", "v">>

NoValue ==
    [title |-> None, artists |-> None, cover_url |-> None, mbid |-> None,
     spotify_link |-> None, spotify_preview |-> None, lyrics_excerpt |-> NoLyrics]

Pending == [kind |-> "pending", err |-> "", value |-> NoValue]
Absent == [kind |-> "absent", err |-> "", value |-> NoValue]
Error(e) == [kind |-> "error", err |-> e, value |-> NoValue]
Result(v) == [kind |-> "result", err |-> "", value |-> v]

\* The locals of a call that has not started: what a frame holds on entry.
StartFrame ==
    [pc |-> "start", entry |-> "none", input |-> <<>>, wav_path |-> None,
     tmpdir |-> NoDir, mbid |-> None, title |-> None, artists |-> None,
     cover_url |-> None, sp_link |-> None, sp_prev |-> None, lyrics |-> NoLyrics,
     ret |-> Pending, calls |-> <<>>, pick |-> NoPick, item |-> NoItem,
     txt |-> <<>>, matches |-> <<>>]

\* No update is being handled: the entry points are called directly.
NoHandler ==
    [handler |-> "none", at |-> "idle", text |-> <<>>, local_path |-> None,
     replied |-> "nothing"]

Init ==
    /\ pc = "start"
    /\ entry = "none"
    /\ env \in Envs
    /\ input = <<>>
    /\ files = {}
    /\ wav_path = None
    /\ mbid = None
    /\ title = None
    /\ artists = None
    /\ cover_url = None
    /\ sp_link = None
    /\ sp_prev = None
    /\ lyrics = NoLyrics
    /\ ret = Pending
    /\ calls = <<>>
    /\ pick = NoPick
    /\ item = NoItem
    /\ txt = <<>>
    /\ matches = <<>>
    /\ tmpdir = NoDir
    /\ other = StartFrame
    /\ bot = NoHandler

locals ==
    <<mbid, title, artists, cover_url, sp_link, sp_prev, lyrics, pick, item, txt,
      matches>>

\* What no step of an identification call touches.
outside == <<other, bot>>

---------------------------------------------------------------------------
(* How a step ends. *)

\* One external request, with the answer it got: "200", "non200", or "exc" when
\* the request itself failed (no connection, timeout); "ok" / "fail" for a process.
Request(svc, arg, resp) ==
    calls' = Append(calls, [svc |-> svc, arg |-> arg, resp |-> resp])

\* An exception leaves the entry point.
Raise(e) == pc' = "failed" /\ ret' = Error(e)

\* return None
ReturnNone == pc' = "no_match" /\ ret' = Absent

\* return {...}
ReturnDict(v) == pc' = "done" /\ ret' = Result(v)

Goto(l) == pc' = l /\ ret' = ret

\* search_engine._spotify_token up to its request: None without both credentials.
HasSpotifyCreds == env.SPOTIFY_CLIENT_ID /\ env.SPOTIFY_CLIENT_SECRET

---------------------------------------------------------------------------
(* identify_from_audio_input: normalization. *)

\* Lines 56-60: the entry, routed by is_url.
identify_from_audio_input(p) ==
    /\ pc = "start"
    /\ entry' = "audio"
    /\ input' = p
    /\ Goto(IF is_url(p) THEN "url_download" ELSE "file_ffmpeg")
    /\ UNCHANGED <<outside, tmpdir, env, files, wav_path, calls, locals>>

AfterNormalizeTextFallback ==
    IF env.ACOUSTID_API_KEY THEN Goto("fingerprint") ELSE Goto("mb_search")

\* Lines 62-66 after normalization: without the key, nothing more is tried.
AfterNormalize == IF env.ACOUSTID_API_KEY THEN Goto("fingerprint") ELSE ReturnNone

\* extract_audio_from_file: one ffmpeg run writing in_path + ".wav".  A run that
\* fails may or may not have created its output.
extract_audio_from_file ==
    /\ pc = "file_ffmpeg"
    /\ \/ /\ Request("ffmpeg", <<input>>, "ok")
          /\ files' = files \cup {OutWav(input)}
          /\ wav_path' = OutWav(input)
          /\ AfterNormalize
       \/ /\ Request("ffmpeg", <<input>>, "fail")
          /\ \E left \in BOOLEAN :
                files' = IF left THEN files \cup {OutWav(input)} ELSE files
          /\ wav_path' = wav_path
          /\ Raise("CalledProcessError")
    /\ UNCHANGED <<outside, tmpdir, entry, env, input, locals>>

\* extract_audio_from_url, the download into a new temporary directory: it
\* raises, or leaves no file (line 56), or leaves dl.<ext>.  An exception
\* leaves the `with` block, which removes the directory.
url_download ==
    /\ pc = "url_download"
    /\ \/ /\ Request("yt_dlp", <<input>>, "ok")
          /\ tmpdir' = Fresh(DirNames)
          /\ files' = files \cup {TmpDir(tmpdir'), TmpDl(tmpdir')}
          /\ Goto("url_transcode")
       \/ /\ Request("yt_dlp", <<input>>, "fail")
          /\ UNCHANGED <<tmpdir, files>>
          /\ Raise("DownloadError")
       \/ /\ Request("yt_dlp", <<input>>, "nofile")
          /\ UNCHANGED <<tmpdir, files>>
          /\ Raise("RuntimeError")
    /\ UNCHANGED <<outside, entry, env, input, wav_path, locals>>

\* The transcode inside the temporary directory.
url_transcode ==
    /\ pc = "url_transcode"
    /\ \/ /\ Request("ffmpeg", <<TmpDl(tmpdir)>>, "ok")
          /\ files' = files \cup {TmpAudio(tmpdir)}
          /\ tmpdir' = tmpdir
          /\ Goto("url_copy")
       \/ /\ Request("ffmpeg", <<TmpDl(tmpdir)>>, "fail")
          /\ files' = files \ TmpDirFiles(tmpdir)
          /\ tmpdir' = NoDir
          /\ Raise("CalledProcessError")
    /\ UNCHANGED <<outside, entry, env, input, wav_path, locals>>

\* mkstemp, then the copy to that persistent temporary file; the directory
\* goes either way.
url_copy ==
    /\ pc = "url_copy"
    /\ files' = (files \ TmpDirFiles(tmpdir)) \cup {FinalPath(Fresh(FinalNames))}
    /\ tmpdir' = NoDir
    /\ \/ /\ Request("ffmpeg", <<TmpAudio(tmpdir)>>, "ok")
          /\ wav_path' = FinalPath(Fresh(FinalNames))
          /\ AfterNormalize
       \/ /\ Request("ffmpeg", <<TmpAudio(tmpdir)>>, "fail")
          /\ wav_path' = wav_path
          /\ Raise("CalledProcessError")
    /\ UNCHANGED <<outside, entry, env, input, locals>>

---------------------------------------------------------------------------
(* identify_from_audio_input: fingerprint and resolution. *)

HardFailures == {"exc", "non200"}

\* requests raising (no connection, timeout) or raise_for_status() raising.
ErrorOf(resp) == IF resp = "exc" THEN "RequestException" ELSE "HTTPError"

FingerprintFailedRaises == Raise("FingerprintError")

\* Lines 25-26 and 66: an exception of the routine is None, and None ends the
\* call with None.
FingerprintFailed == ReturnNone

\* _chromaprint_fingerprint
chromaprint_fingerprint ==
    /\ pc = "fingerprint"
    /\ \/ /\ Request("fpcalc", <<wav_path>>, "ok")
          /\ Goto("acoustid")
       \/ /\ Request("fpcalc", <<wav_path>>, "fail")
          /\ FingerprintFailed
    /\ UNCHANGED <<outside, tmpdir, entry, env, input, files, wav_path, locals>>

\* Lines 69-74 on the matches acoustid_lookup returned.
TakeTop(ms) ==
    IF ms = <<>> \/ Top(ms).recordings = <<>>
    THEN mbid' = mbid /\ ReturnNone
    ELSE mbid' = Top(ms).recordings[1] /\ Goto("mb_lookup")

\* acoustid_lookup, then lines 69-74.  A body whose status is not "ok" is the
\* empty list.
acoustid_lookup ==
    /\ pc = "acoustid"
    /\ \/ \E resp \in HardFailures :
            /\ Request("acoustid", <<>>, resp)
            /\ UNCHANGED <<mbid, matches>>
            /\ Raise(ErrorOf(resp))
       \/ /\ Request("acoustid", <<>>, "200")
          /\ matches' \in MatchLists
          /\ TakeTop(matches')
    /\ UNCHANGED <<outside, tmpdir, entry, env, input, files, wav_path, title,
                   artists, cover_url, sp_link, sp_prev, lyrics, pick, item, txt>>

AfterCoverAlwaysToken == Goto("sp_token")

\* _enrich_spotify_and_cover's start: _spotify_token asks for a token only
\* with both credentials set; without a token only the lyrics are left.
AfterCover == IF HasSpotifyCreds THEN Goto("sp_token") ELSE Goto("lyrics")

\* Lines 78-79 / 128-129: the cover probe is made only for a first release.
AfterPick(releases) == IF releases # <<>> THEN Goto("cover") ELSE AfterCover

\* mb_lookup_recording, then lines 76-78.
mb_lookup_recording ==
    /\ pc = "mb_lookup"
    /\ \/ \E resp \in HardFailures :
            /\ Request("mb_lookup", <<mbid>>, resp)
            /\ Raise(ErrorOf(resp))
            /\ UNCHANGED <<title, artists, pick>>
       \/ /\ Request("mb_lookup", <<mbid>>, "200")
          /\ \E info \in Recordings :
                /\ pick' = [info EXCEPT !.id = mbid]
                /\ title' = info.title
                /\ artists' = JoinCredit(info.credit)
                /\ AfterPick(info.releases)
    /\ UNCHANGED <<outside, tmpdir, matches, entry, env, input, files, wav_path,
                   mbid, cover_url, sp_link, sp_prev, lyrics, item, txt>>


---------------------------------------------------------------------------
(* identify_from_text: resolution. *)

\* Lines 99-100: the entry.
identify_from_text(q) ==
    /\ pc = "start"
    /\ entry' = "text"
    /\ input' = q
    /\ Goto("mb_search")
    /\ UNCHANGED <<outside, tmpdir, env, files, wav_path, calls, locals>>

\* Line 127: the credited names joined, or the placeholder.
TextArtists(credit) == Or(JoinCredit(credit), Unknown)

\* mb_search_recordings, then lines 101-106 and 125-129.
mb_search_recordings ==
    /\ pc = "mb_search"
    /\ \/ \E resp \in HardFailures :
            /\ Request("mb_search", <<input>>, resp)
            /\ Raise(ErrorOf(resp))
            /\ UNCHANGED <<mbid, title, artists, pick>>
       \/ /\ Request("mb_search", <<input>>, "200")
          /\ \E recordings \in RecordingLists :
                IF recordings = <<>>
                THEN /\ IF HasSpotifyCreds THEN Goto("fb_token") ELSE ReturnNone
                     /\ UNCHANGED <<mbid, title, artists, pick>>
                ELSE /\ pick' = recordings[1]
                     /\ mbid' = recordings[1].id
                     /\ title' = recordings[1].title
                     /\ artists' = TextArtists(recordings[1].credit)
                     /\ AfterPick(recordings[1].releases)
    /\ UNCHANGED <<outside, tmpdir, matches, entry, env, input, files, wav_path,
                   cover_url, sp_link, sp_prev, lyrics, item, txt>>

---------------------------------------------------------------------------
(* Enrichment, and the commercial fallback of identify_from_text. *)

ProbedCoverUnchecked(release, resp) == CoverUrl(release)

\* cover_art_from_release: the URL when the probe answers 200, else None.
ProbedCover(release, resp) == IF resp = "200" THEN CoverUrl(release) ELSE None

cover_art_from_release ==
    /\ pc = "cover"
    /\ \E resp \in {"200", "non200", "exc"} :
          /\ Request("cover", <<pick.releases[1]>>, resp)
          /\ cover_url' = ProbedCover(pick.releases[1], resp)
    /\ AfterCover
    /\ UNCHANGED <<outside, tmpdir, matches, entry, env, input, files, wav_path,
                   mbid, title, artists,
                   sp_link, sp_prev, lyrics, pick, item, txt>>

\* What follows a token request that raised: requests.post is not guarded.
TokenRaised(resp) == Raise(ErrorOf(resp))

TokenNoneGoesOn == Goto("lyrics")

\* What follows a None token: enrichment goes on to the lyrics, the fallback
\* of identify_from_text returns None.
TokenNone == IF pc = "sp_token" THEN Goto("lyrics") ELSE ReturnNone

\* spotify_client_credentials_token as _spotify_token calls it: a status other
\* than 200 is None, and so is a body without access_token.
spotify_client_credentials_token ==
    /\ pc \in {"sp_token", "fb_token"}
    /\ \/ /\ Request("sp_token", <<>>, "exc")
          /\ TokenRaised("exc")
       \/ /\ Request("sp_token", <<>>, "non200")
          /\ TokenNone
       \/ /\ Request("sp_token", <<>>, "200")
          /\ \E access_token \in BOOLEAN :
                IF access_token
                THEN Goto(IF pc = "sp_token" THEN "sp_search" ELSE "fb_search")
                ELSE TokenNone
    /\ UNCHANGED <<outside, tmpdir, entry, env, input, files, wav_path, locals>>

\* The search string: line 42 (with line 80's or line 131's arguments), or
\* the query itself in the fallback (line 107).
SearchString ==
    IF pc = "fb_search" THEN input
    ELSE IF entry = "audio"
         THEN Strip(Fmt(title) \o <<" ">> \o Fmt(artists))
         ELSE Strip(Or(title, <<>>) \o <<" ">> \o Or(artists, <<>>))

\* Lines 43-48: the first item's link, preview and, without a probed cover,
\* its cover.
EnrichFrom(items) ==
    IF items = <<>>
    THEN UNCHANGED <<sp_link, sp_prev, cover_url, item>>
    ELSE LET sp == spotify_track_link_and_preview(items[1])
         IN  /\ item' = items[1]
             /\ sp_link' = sp.link
             /\ sp_prev' = sp.preview
             /\ cover_url' = Or(cover_url, sp.cover)

FallbackTitleOfHitOnly(sp) == sp.title

\* Line 111: the hit's title, or the query when the hit has none.
FallbackTitle(sp) == Or(sp.title, input)

FallbackFromPartial(items) ==
    IF items = <<>>
    THEN /\ artists' = <<>>
         /\ title' = input
         /\ UNCHANGED <<sp_link, sp_prev, cover_url, item>>
         /\ Goto("lyrics")
    ELSE LET sp == spotify_track_link_and_preview(items[1])
         IN  /\ item' = items[1]
             /\ artists' = Or(sp.artists, <<>>)
             /\ title' = FallbackTitle(sp)
             /\ cover_url' = sp.cover
             /\ sp_link' = sp.link
             /\ sp_prev' = sp.preview
             /\ Goto("lyrics")

\* Lines 108-119: the fallback's result is the first item's.
FallbackFrom(items) ==
    IF items = <<>>
    THEN ReturnNone /\ UNCHANGED <<sp_link, sp_prev, cover_url, item, artists, title>>
    ELSE LET sp == spotify_track_link_and_preview(items[1])
         IN  /\ item' = items[1]
             /\ artists' = Or(sp.artists, <<>>)
             /\ title' = FallbackTitle(sp)
             /\ cover_url' = sp.cover
             /\ sp_link' = sp.link
             /\ sp_prev' = sp.preview
             /\ Goto("lyrics")

\* spotify_search_track (limit=1) and what its caller does with the items.
spotify_search_track ==
    /\ pc \in {"sp_search", "fb_search"}
    /\ \/ \E resp \in HardFailures :
            /\ Request("sp_search", <<SearchString>>, resp)
            /\ Raise(ErrorOf(resp))
            /\ UNCHANGED <<sp_link, sp_prev, cover_url, item, artists, title>>
       \/ /\ Request("sp_search", <<SearchString>>, "200")
          /\ \E items \in {<<>>} \cup {<<it>> : it \in SpItems} :
                IF pc = "sp_search"
                THEN EnrichFrom(items) /\ Goto("lyrics") /\ UNCHANGED <<artists, title>>
                ELSE FallbackFrom(items)
    /\ UNCHANGED <<outside, tmpdir, matches, entry, env, input, files, wav_path,
                   mbid, lyrics, pick, txt>>

\* The dict the entry points return (lines 82-90, 113-121, 134-142).
ResultDict(l) ==
    [title |-> title, artists |-> artists, cover_url |-> cover_url,
     mbid |-> mbid, spotify_link |-> sp_link, spotify_preview |-> sp_prev,
     lyrics_excerpt |-> l]

\* The body of a 200 answer to lyrics_best_effort's excerpt: None for an
\* empty text.
ExcerptOf(t) ==
    IF RawLen(t) = 0 THEN NoLyrics ELSE [some |-> TRUE, lines |-> LyricsExcerpt(t)]

\* lyrics_best_effort(first artist, title), then the return of the dict.
lyrics_best_effort ==
    /\ pc = "lyrics"
    /\ LET artist == FirstArtist(artists)
           song == Or(title, <<>>)
       IN  \/ /\ ~(Truthy(artist) /\ Truthy(song))
              /\ lyrics' = NoLyrics
              /\ UNCHANGED <<calls, txt>>
           \/ /\ Truthy(artist) /\ Truthy(song)
              /\ \E resp \in {"non200", "exc"} :
                    Request("lyrics", <<artist, song>>, resp)
              /\ lyrics' = NoLyrics
              /\ txt' = txt
           \/ /\ Truthy(artist) /\ Truthy(song)
              /\ Request("lyrics", <<artist, song>>, "200")
              /\ \E t \in LyricTexts :
                    /\ txt' = t
                    /\ lyrics' = ExcerptOf(t)
    /\ ReturnDict(ResultDict(lyrics'))
    /\ UNCHANGED <<outside, tmpdir, matches, entry, env, input, files, wav_path,
                   mbid, title, artists,
                   cover_url, sp_link, sp_prev, pick, item>>

---------------------------------------------------------------------------

Next ==
    \/ \E p \in AudioInputs : identify_from_audio_input(p)
    \/ \E q \in Queries : identify_from_text(q)
    \/ extract_audio_from_file
    \/ url_download
    \/ url_transcode
    \/ url_copy
    \/ chromaprint_fingerprint
    \/ acoustid_lookup
    \/ mb_lookup_recording
    \/ mb_search_recordings
    \/ cover_art_from_release
    \/ spotify_client_credentials_token
    \/ spotify_search_track
    \/ lyrics_best_effort

Spec == Init /\ [][Next]_vars

---------------------------------------------------------------------------
(* Two calls at once.  The entry points keep everything in locals, so each   *)
(* call has a frame of its own; the environment and the disk are the only    *)
(* state two calls share.  The variables above are the frame of the call     *)
(* that is running, `other` is the frame of the call that is waiting, and a  *)
(* switch of the scheduler between two steps exchanges them.                 *)

Frame ==
    [pc |-> pc, entry |-> entry, input |-> input, wav_path |-> wav_path,
     tmpdir |-> tmpdir, mbid |-> mbid, title |-> title, artists |-> artists,
     cover_url |-> cover_url, sp_link |-> sp_link, sp_prev |-> sp_prev,
     lyrics |-> lyrics, ret |-> ret, calls |-> calls, pick |-> pick,
     item |-> item, txt |-> txt, matches |-> matches]

Ended(f) == f.pc \in {"done", "no_match", "failed"}

SwitchSharingArtists ==
    /\ ~Ended(other)
    /\ other' = Frame
    /\ pc' = other.pc
    /\ entry' = other.entry
    /\ input' = other.input
    /\ wav_path' = other.wav_path
    /\ tmpdir' = other.tmpdir
    /\ mbid' = other.mbid
    /\ title' = other.title
    /\ artists' = artists
    /\ cover_url' = other.cover_url
    /\ sp_link' = other.sp_link
    /\ sp_prev' = other.sp_prev
    /\ lyrics' = other.lyrics
    /\ ret' = other.ret
    /\ calls' = other.calls
    /\ pick' = other.pick
    /\ item' = other.item
    /\ txt' = other.txt
    /\ matches' = other.matches
    /\ UNCHANGED <<env, files, bot>>

\* The waiting call, unless it has returned, goes on and the running one waits:
\* every local is the call's own.
Switch ==
    /\ ~Ended(other)
    /\ other' = Frame
    /\ pc' = other.pc
    /\ entry' = other.entry
    /\ input' = other.input
    /\ wav_path' = other.wav_path
    /\ tmpdir' = other.tmpdir
    /\ mbid' = other.mbid
    /\ title' = other.title
    /\ artists' = other.artists
    /\ cover_url' = other.cover_url
    /\ sp_link' = other.sp_link
    /\ sp_prev' = other.sp_prev
    /\ lyrics' = other.lyrics
    /\ ret' = other.ret
    /\ calls' = other.calls
    /\ pick' = other.pick
    /\ item' = other.item
    /\ txt' = other.txt
    /\ matches' = other.matches
    /\ UNCHANGED <<env, files, bot>>

\* The upstream answers two concurrent calls are run against: a slice of the
\* answers of one call, to keep the pairs of calls countable.
ConcPicks ==
    {NoPick} \cup
    [id : {Mbid1, Mbid2}, title : {TitleY}, credit : {<<NameA>>, <<NameA, NameB>>},
     releases : {<<Rel1>>}]

ConcItems ==
    {NoItem,
     [some |-> TRUE, link |-> SpLink, preview |-> SpPrev, images |-> <<SpImg>>,
      artists |-> <<NameA>>, name |-> TitleY]}

ConcTexts == {<<>>, <<[pad |-> 1, len |-> 200]>>}

ConcScope ==
    /\ input # UrlInputUpper
    /\ pick \in ConcPicks
    /\ item \in ConcItems
    /\ txt \in ConcTexts
    /\ Len(matches) <= 1
    /\ \A k \in 1..Len(calls) : calls[k].resp = "non200" => calls[k].svc = "sp_token"

\* One step of the running call.
CallStep == Next /\ ConcScope'

NextConc == CallStep \/ Switch

\* Both calls read one environment: every optional credential set, or none.
InitConc ==
    /\ Init
    /\ env.SPOTIFY_CLIENT_ID = env.ACOUSTID_API_KEY
    /\ env.SPOTIFY_CLIENT_SECRET = env.ACOUSTID_API_KEY

SpecConc == InitConc /\ [][NextConc]_vars

---------------------------------------------------------------------------
(* The transport (bot.py): one update handled by handle_text_or_link or by   *)
(* handle_media, which call the entry points above.  `bot.at` is "idle"      *)
(* before the update, "received" from the handler's start until it has       *)
(* replied, and "finished" when the handler has returned.                    *)

\* The texts of the messages: a link, a link in upper case between spaces, a
\* title, and a title with an artist.
Messages == {UrlInput, UrlInputUpper \o <<" ">>} \cup Queries

\* tempfile.NamedTemporaryFile(delete=False).name
LocalPath == <<"/", "t", "m", "p", "/", "u">>

\* Everything of the call itself.
callstate == <<pc, entry, input, wav_path, tmpdir, ret, calls, locals>>

\* Lines 80-86: the text stripped; in a group, a text that does not mention
\* the bot is not answered.
handle_text_or_link(text) ==
    /\ bot.at = "idle"
    /\ \E reacts \in BOOLEAN :
          bot' = [bot EXCEPT !.handler = "text", !.text = Strip(text),
                             !.at = IF reacts THEN "received" ELSE "finished"]
    /\ UNCHANGED <<callstate, env, files, other>>

\* Lines 89-90: a text that is a URL goes to identify_from_audio_input.
handle_text_as_url ==
    /\ bot.handler = "text" /\ bot.at = "received"
    /\ is_url(bot.text)
    /\ identify_from_audio_input(bot.text)

\* Lines 91-92: any other text goes to identify_from_text.
handle_text_as_query ==
    /\ bot.handler = "text" /\ bot.at = "received"
    /\ ~is_url(bot.text)
    /\ identify_from_text(bot.text)

\* Lines 94-100, once the call has returned or raised: the result or "No
\* match found" is sent; an exception of the call or of the sending is
\* logged and answered with "Error: ...".
handle_text_or_link_reply ==
    /\ bot.handler = "text" /\ bot.at = "received"
    /\ pc \in {"done", "no_match", "failed"}
    /\ \E sent \in BOOLEAN :
          bot' = [bot EXCEPT !.at = "finished",
                             !.replied = IF ret.kind = "error" \/ ~sent THEN "error"
                                         ELSE ret.kind]
    /\ UNCHANGED <<callstate, env, files, other>>

\* Lines 104-122: no file in the message is answered "Unsupported file."; else
\* the upload is downloaded into a new temporary file that outlives its
\* `with` block.  get_file or the download raising ends in the handler's
\* except block, the download with the file created.
handle_media ==
    /\ bot.at = "idle"
    /\ \/ /\ bot' = [bot EXCEPT !.handler = "media", !.at = "finished",
                                 !.replied = "unsupported"]
          /\ files' = files
       \/ /\ bot' = [bot EXCEPT !.handler = "media", !.at = "finished",
                                 !.replied = "error"]
          /\ files' = files
       \/ /\ bot' = [bot EXCEPT !.handler = "media", !.at = "finished",
                                 !.replied = "error"]
          /\ files' = files \cup {LocalPath}
       \/ /\ bot' = [bot EXCEPT !.handler = "media", !.at = "received",
                                 !.local_path = LocalPath]
          /\ files' = files \cup {LocalPath}
    /\ UNCHANGED <<callstate, env, other>>

\* Line 124
handle_media_identify ==
    /\ bot.handler = "media" /\ bot.at = "received"
    /\ identify_from_audio_input(bot.local_path)

\* Lines 125-136, once the call has returned or raised: after the result or
\* "Couldn't identify" is sent, os.remove(local_path); an exception of the
\* call or of the sending goes to the except block, past the os.remove.
handle_media_reply ==
    /\ bot.handler = "media" /\ bot.at = "received"
    /\ pc \in {"done", "no_match", "failed"}
    /\ \E sent \in BOOLEAN :
          IF ret.kind = "error" \/ ~sent
          THEN /\ bot' = [bot EXCEPT !.at = "finished", !.replied = "error"]
               /\ files' = files
          ELSE /\ bot' = [bot EXCEPT !.at = "finished", !.replied = ret.kind]
               /\ files' = files \ {bot.local_path}
    /\ UNCHANGED <<callstate, env, other>>

\* The handlers and the steps of the call they make; the reply does not
\* depend on the lyrics text, of which a slice is taken.
NextBot ==
    \/ \E text \in Messages : handle_text_or_link(text)
    \/ handle_text_as_url
    \/ handle_text_as_query
    \/ handle_text_or_link_reply
    \/ handle_media
    \/ handle_media_identify
    \/ handle_media_reply
    \/ extract_audio_from_file
    \/ url_download
    \/ url_transcode
    \/ url_copy
    \/ chromaprint_fingerprint
    \/ acoustid_lookup
    \/ mb_lookup_recording
    \/ mb_search_recordings
    \/ cover_art_from_release
    \/ spotify_client_credentials_token
    \/ spotify_search_track
    \/ lyrics_best_effort /\ txt' \in ConcTexts

SpecBot == Init /\ [][NextBot]_vars

---------------------------------------------------------------------------
(* The call as the per-call state machine of the design. *)

Terminal == pc \in {"done", "no_match", "failed"}

\* The stage each position of the code belongs to.
Stage(l) ==
    CASE l = "start" -> "START"
      [] l \in {"file_ffmpeg", "url_download", "url_transcode", "url_copy"} -> "NORMALIZING"
      [] l = "fingerprint" -> "FINGERPRINTING"
      [] l \in {"acoustid", "mb_lookup", "mb_search", "fb_token", "fb_search"} -> "RESOLVING"
      [] l \in {"cover", "sp_token", "sp_search", "lyrics"} -> "ENRICHING"
      [] l = "done" -> "DONE"
      [] l = "no_match" -> "NO_MATCH"
      [] l = "failed" -> "FAILED"

Made(svc) == \E i \in 1..Len(calls) : calls[i].svc = svc

MadeWith(svc, resps) ==
    \E i \in 1..Len(calls) : calls[i].svc = svc /\ calls[i].resp \in resps

\* A recording of the metadata database was resolved (by search or by lookup).
Resolved == pick.id # None

Empty(s) == ~Truthy(s)

---------------------------------------------------------------------------
(* C1: once identifyFromAudio has ended (result, absent or error), no       *)
(* temporary file created during normalization exists any more.             *)
C1_TempFilesRemoved == (entry = "audio" /\ Terminal) => files = {}

(* C2: once a candidate is resolved, a failing enrichment sub-step (cover    *)
(* probe, commercial token or search, lyrics fetch) never aborts the call:   *)
(* it returns a result, with the failed sub-step's fields absent.            *)
C2_EnrichmentIsolated ==
    (Resolved /\ Terminal) =>
        /\ ret.kind = "result"
        /\ MadeWith("cover", HardFailures) => ret.value.cover_url # CoverUrl(Rel1)
        /\ (MadeWith("sp_token", HardFailures) \/ MadeWith("sp_search", HardFailures)) =>
              ret.value.spotify_link = None /\ ret.value.spotify_preview = None
        /\ MadeWith("lyrics", HardFailures) => ret.value.lyrics_excerpt = NoLyrics

\* The commercial catalog was consulted to resolve the query, not to enrich.
InFallback == entry = "text" /\ ~Resolved

\* A catalog query used for resolution failed hard.
ResolutionFailedHard ==
    \/ MadeWith("acoustid", HardFailures)
    \/ MadeWith("mb_lookup", HardFailures)
    \/ MadeWith("mb_search", HardFailures)
    \/ InFallback /\ (MadeWith("sp_token", HardFailures) \/ MadeWith("sp_search", HardFailures))

(* C3: a hard failure (network, auth, non-200) of a catalog query used for   *)
(* resolution always ends the call with an error, never with absent.         *)
C3_HardFailureIsError ==
    (Terminal /\ ResolutionFailedHard) => ret.kind = "error"

\* No fingerprint is recoverable: the key is unset, or the routine failed.
NoFingerprint == ~env.ACOUSTID_API_KEY \/ MadeWith("fpcalc", {"fail"})

NoCatalogRequest == ~Made("acoustid") /\ ~Made("mb_lookup") /\ ~Made("mb_search")

(* C4 as claimed: identifyFromAudio with no recoverable fingerprint always   *)
(* returns absent, never raises, and issues no fingerprint-service or        *)
(* metadata-database request.                                               *)
C4_NoFingerprintNeverRaises ==
    (entry = "audio" /\ NoFingerprint /\ Terminal) =>
        ret.kind = "absent" /\ NoCatalogRequest

(* C4 as amended: identifyFromAudio on an input that normalization turned    *)
(* into a WAV, with no recoverable fingerprint, has returned absent, never   *)
(* an error, and has issued no fingerprint-service or metadata-database      *)
(* request.                                                                  *)
C4_NormalizedNoFingerprintIsAbsent ==
    (entry = "audio" /\ NoFingerprint /\ wav_path # None) =>
        pc = "no_match" /\ ret.kind = "absent" /\ NoCatalogRequest

\* The fingerprinting routine failed on a normalized input, and the call ended.
C4_Witness == entry = "audio" /\ MadeWith("fpcalc", {"fail"}) /\ Terminal

(* C5: every result returned, by either entry point, has a non-empty title  *)
(* or a non-empty artist string (a record that carries neither is to yield  *)
(* absent, never such a result).                                            *)
C5_TitleOrArtist ==
    ret.kind = "result" => ~Empty(ret.value.title) \/ ~Empty(ret.value.artists)

\* The non-blank lines of a text, each with its place and its stripped length.
NonBlank(t) == SelectSeq(Numbered(t), LAMBDA l : l.len > 0)

IsPrefix(a, b) == Len(a) <= Len(b) /\ SubSeq(b, 1, Len(a)) = a

(* C6: the lyrics excerpt is at most 500 characters long, consists of whole  *)
(* non-blank lines of the text in their order, and is the longest leading    *)
(* run of them whose cumulative character count does not exceed 500.         *)
C6_ExcerptWithinLimit ==
    lyrics.some =>
        /\ JoinedLen(lyrics.lines) <= ExcerptLimit
        /\ IsPrefix(lyrics.lines, NonBlank(txt))
        /\ \A k \in 1..Len(NonBlank(txt)) :
              JoinedLen(SubSeq(NonBlank(txt), 1, k)) <= ExcerptLimit
                  => k <= Len(lyrics.lines)

\* The transitions of the per-call state machine.
StageEdges ==
    { <<"START", "NORMALIZING">>, <<"START", "RESOLVING">>,
      <<"NORMALIZING", "FINGERPRINTING">>, <<"FINGERPRINTING", "RESOLVING">>,
      <<"RESOLVING", "ENRICHING">>, <<"ENRICHING", "DONE">> }
    \cup {<<s, "NO_MATCH">> : s \in {"NORMALIZING", "FINGERPRINTING", "RESOLVING", "ENRICHING"}}
    \cup {<<s, "FAILED">> : s \in {"NORMALIZING", "FINGERPRINTING", "RESOLVING", "ENRICHING"}}
    \cup {<<s, s>> : s \in {"NORMALIZING", "RESOLVING", "ENRICHING"}}

C7_Outcome ==
    /\ pc = "done" <=> ret.kind = "result"
    /\ pc = "no_match" <=> ret.kind = "absent"
    /\ pc = "failed" <=> ret.kind = "error"
    /\ ~Terminal <=> ret.kind = "pending"

C7_Step ==
    /\ <<Stage(pc), Stage(pc')>> \in StageEdges
    /\ pc = "start" =>
          Stage(pc') = IF entry' = "text" THEN "RESOLVING" ELSE "NORMALIZING"
    /\ Stage(pc') = "ENRICHING" => pick'.id # None \/ item'.some

(* C7: the stages are entered only in the order NORMALIZING,                 *)
(* FINGERPRINTING, RESOLVING, ENRICHING (text input starts at RESOLVING);    *)
(* ENRICHING is entered only with a candidate; the call ends in exactly one  *)
(* of DONE (result), NO_MATCH (absent), FAILED (error), and takes no step,   *)
(* so makes no request, after that.                                          *)
C7_StateMachine == [](C7_Outcome) /\ [][C7_Step]_vars

\* An audio call went through all four stages and returned a result.
C7_Witness == pc = "done" /\ entry = "audio" /\ Made("fpcalc") /\ Made("lyrics")

\* The text search answered with zero recordings.
MbSearchEmpty == entry = "text" /\ MadeWith("mb_search", {"200"}) /\ ~Resolved

\* The commercial fallback found nothing: it is disabled, or its search
\* answered with zero items.
FallbackEmpty ==
    \/ ~HasSpotifyCreds
    \/ MadeWith("sp_search", {"200"}) /\ ~item.some

(* C8: when the metadata-database text search yields zero candidates and the *)
(* commercial fallback yields zero hits or is disabled, identifyFromText     *)
(* returns absent.                                                           *)
C8_NothingFoundIsAbsent ==
    (MbSearchEmpty /\ FallbackEmpty) => pc = "no_match" /\ ret.kind = "absent"

\* Both catalogs were asked and both answered with nothing.
C8_Witness == MbSearchEmpty /\ MadeWith("sp_search", {"200"}) /\ ~item.some /\ Terminal

\* A result the commercial fallback produced.
FallbackResult == InFallback /\ ret.kind = "result"

\* The metadata database is asked first, and the commercial catalog is asked
\* to resolve only after it answered with zero recordings.
C9_Order ==
    /\ (entry = "text" /\ calls # <<>>) => calls[1].svc = "mb_search"
    /\ (pc \in {"fb_token", "fb_search"} \/ FallbackResult) =>
          MbSearchEmpty

C9_HitFields(v, sp) ==
    /\ v.mbid = None
    /\ v.artists = sp.artists
    /\ v.spotify_link = sp.link
    /\ v.spotify_preview = sp.preview
    /\ v.cover_url = sp.cover

(* C9 as claimed: in identifyFromText the metadata database is asked first,  *)
(* the commercial catalog resolves only after zero recordings, and a result  *)
(* of that fallback has a null catalog identifier and the hit's title,       *)
(* artists, link, preview and cover.                                         *)
C9_FallbackIsTheHit ==
    /\ C9_Order
    /\ FallbackResult =>
          /\ C9_HitFields(ret.value, spotify_track_link_and_preview(item))
          /\ ret.value.title = spotify_track_link_and_preview(item).title

(* C9 as amended: the same, but the result's title is the hit's title when   *)
(* the hit has one and the query itself otherwise.                           *)
C9_FallbackIsTheHitOrQuery ==
    /\ C9_Order
    /\ FallbackResult =>
          /\ C9_HitFields(ret.value, spotify_track_link_and_preview(item))
          /\ ret.value.title =
                IF Truthy(item.name) THEN item.name ELSE input

\* The fallback returned a result from a hit that has no title.
C9_Witness == FallbackResult /\ item.some /\ item.name = None

(* C10: when the text search returns a non-empty list, identifyFromText      *)
(* returns a result whose title and artist string are the first entry's      *)
(* (its credited names joined in order) and whose catalog identifier is      *)
(* not null.                                                                 *)
C10_FirstEntryReturned ==
    (entry = "text" /\ Resolved /\ Terminal) =>
        /\ ret.kind = "result"
        /\ ret.value.title = pick.title
        /\ ret.value.artists = JoinCredit(pick.credit)
        /\ ret.value.mbid # None

---------------------------------------------------------------------------
(* C11: the fingerprint path takes the top-ranked match only. *)

\* Match i ranks first: no match has a higher score, and none before it has
\* the same score.
RanksFirst(ms, i) ==
    \A j \in 1..Len(ms) :
        \/ ms[j].score < ms[i].score
        \/ ms[j].score = ms[i].score /\ i <= j

LookedUp == {calls[k].arg : k \in {n \in 1..Len(calls) : calls[n].svc = "mb_lookup"}}

\* C11: once the fingerprint service has answered, the recording looked up is
\* the first recording of the match that ranks first (highest score, the
\* service's order among equal scores) and no other recording is ever looked
\* up; when that match has no recording, or there is no match, the call has
\* returned absent without any lookup.
C11_TopMatchOnly ==
    MadeWith("acoustid", {"200"}) =>
        IF \E i \in 1..Len(matches) :
              RanksFirst(matches, i) /\ matches[i].recordings # <<>>
        THEN \E i \in 1..Len(matches) :
                /\ RanksFirst(matches, i)
                /\ mbid = matches[i].recordings[1]
                /\ LookedUp \subseteq {<<mbid>>}
                /\ Resolved => pick.id = mbid
        ELSE /\ ret = Absent
             /\ LookedUp = {}
             /\ ~Resolved

\* A lookup made when the first match of the answer is outranked by a later one.
C11_Witness ==
    /\ MadeWith("mb_lookup", {"200"})
    /\ Len(matches) > 1
    /\ matches[1].score < matches[2].score

---------------------------------------------------------------------------
(* C12: where the cover URL of a result comes from. *)

\* The cover-art URLs probed in this call, by the answer of the probe.
Probed(resps) ==
    {CoverUrl(calls[k].arg[1]) :
        k \in {n \in 1..Len(calls) : calls[n].svc = "cover" /\ calls[n].resp \in resps}}

\* The cover of the commercial hit, None when it has no image.
CommercialCover == spotify_track_link_and_preview(item).cover

\* C12: the cover URL of a returned result, when it has one, is a cover-art
\* URL whose probe answered 200 in this call or the cover of the commercial
\* hit; after a successful probe it is the probed URL, so the commercial cover
\* is returned only when no probe succeeded; and a URL whose probe failed is
\* never returned.
C12_CoverSource ==
    ret.kind = "result" =>
        LET c == ret.value.cover_url
        IN  /\ c \in Probed({"200"}) \cup {None} \/ (item.some /\ c = CommercialCover)
            /\ Probed({"200"}) # {} => c \in Probed({"200"})
            /\ c \notin Probed({"200"}) => c = CommercialCover
            /\ c \notin Probed(HardFailures)

\* A result whose probe succeeded although the commercial hit had a cover too.
C12_Witness ==
    /\ ret.kind = "result"
    /\ Probed({"200"}) # {}
    /\ item.some
    /\ CommercialCover # None

---------------------------------------------------------------------------
(* C13: two concurrent calls do not interfere. *)

\* The answer call f got from a service ("none" when it never asked), and
\* whether a run of a program failed.
RespOf(f, svc) ==
    LET ks == {k \in 1..Len(f.calls) : f.calls[k].svc = svc}
    IN  IF ks = {} THEN "none"
        ELSE f.calls[CHOOSE k \in ks : \A j \in ks : j <= k].resp

Failed(f, svc) == \E k \in 1..Len(f.calls) : f.calls[k].svc = svc /\ f.calls[k].resp = "fail"

LyricsAlone(f) == IF RespOf(f, "lyrics") = "200" THEN ExcerptOf(f.txt) ELSE NoLyrics

\* What a call returns, run alone, once its recording f.pick is resolved with
\* title t and artists a: a function of the answers it got.
EnrichedAlone(f, t, a) ==
    LET sp == spotify_track_link_and_preview(f.item)
        probed == IF RespOf(f, "cover") = "200" THEN CoverUrl(f.pick.releases[1]) ELSE None
    IN  IF RespOf(f, "sp_token") = "exc" THEN Error("RequestException")
        ELSE IF RespOf(f, "sp_search") \in HardFailures
        THEN Error(ErrorOf(RespOf(f, "sp_search")))
        ELSE Result([title |-> t, artists |-> a, cover_url |-> Or(probed, sp.cover),
                     mbid |-> f.pick.id, spotify_link |-> sp.link,
                     spotify_preview |-> sp.preview, lyrics_excerpt |-> LyricsAlone(f)])

TextAlone(f) ==
    LET sp == spotify_track_link_and_preview(f.item)
    IN  IF RespOf(f, "mb_search") \in HardFailures
        THEN Error(ErrorOf(RespOf(f, "mb_search")))
        ELSE IF f.pick.id # None
        THEN EnrichedAlone(f, f.pick.title, Or(JoinCredit(f.pick.credit), Unknown))
        ELSE IF RespOf(f, "sp_token") = "exc" THEN Error("RequestException")
        ELSE IF RespOf(f, "sp_search") \in HardFailures
        THEN Error(ErrorOf(RespOf(f, "sp_search")))
        ELSE IF ~f.item.some THEN Absent
        ELSE Result([title |-> Or(sp.title, f.input), artists |-> Or(sp.artists, <<>>),
                     cover_url |-> sp.cover, mbid |-> None, spotify_link |-> sp.link,
                     spotify_preview |-> sp.preview, lyrics_excerpt |-> LyricsAlone(f)])

AudioAlone(f) ==
    IF RespOf(f, "yt_dlp") = "fail" THEN Error("DownloadError")
    ELSE IF RespOf(f, "yt_dlp") = "nofile" THEN Error("RuntimeError")
    ELSE IF Failed(f, "ffmpeg") THEN Error("CalledProcessError")
    ELSE IF RespOf(f, "fpcalc") # "ok" THEN Absent
    ELSE IF RespOf(f, "acoustid") \in HardFailures
    THEN Error(ErrorOf(RespOf(f, "acoustid")))
    ELSE IF RespOf(f, "mb_lookup") = "none" THEN Absent
    ELSE IF RespOf(f, "mb_lookup") \in HardFailures
    THEN Error(ErrorOf(RespOf(f, "mb_lookup")))
    ELSE EnrichedAlone(f, f.pick.title, JoinCredit(f.pick.credit))

\* A call that has returned, returned what its input and its own upstream
\* answers determine.
AsAlone(f) ==
    Ended(f) => f.ret = IF f.entry = "text" THEN TextAlone(f) ELSE AudioAlone(f)

---------------------------------------------------------------------------
(* C14: the normalized audio of a call is its own. *)

\* C14: two concurrent calls of the audio path, also two calls on the same
\* local path, never have the same normalized-audio path.
C14_OwnAudio ==
    (entry = "audio" /\ other.entry = "audio"
        /\ wav_path # None /\ other.wav_path # None) =>
        wav_path # other.wav_path


---------------------------------------------------------------------------
(* C15: an optional credential that is not set. *)

\* C15: without both commercial-catalog credentials no token and no search
\* request is made, and a call that resolved a recording still returns a
\* result, whose commercial link and preview are absent; without the
\* fingerprint key no fingerprint is taken and the fingerprint service is not
\* asked, and the call, once its audio is normalized, returns absent.
C15_UnsetCredentialDisablesPath ==
    /\ ~HasSpotifyCreds =>
          /\ ~Made("sp_token") /\ ~Made("sp_search")
          /\ (Resolved /\ Terminal) =>
                /\ ret.kind = "result"
                /\ ret.value.spotify_link = None
                /\ ret.value.spotify_preview = None
    /\ ~env.ACOUSTID_API_KEY =>
          /\ ~Made("fpcalc") /\ ~Made("acoustid")
          /\ (entry = "audio" /\ wav_path # None) => ret = Absent

\* A recording resolved from a fingerprint and returned without commercial
\* credentials.
C15_Witness ==
    /\ ~HasSpotifyCreds
    /\ entry = "audio"
    /\ Resolved
    /\ ret.kind = "result"

---------------------------------------------------------------------------
(* C16: every request of a call is bounded in time. *)

\* The timeout= argument, in seconds, of the requests that are given one
\* (providers.py).  subprocess.run in _run_ffmpeg_cmd and ydl.download are
\* given none: they return when ffmpeg exits and when the download ends.
Timeouts ==
    [mb_search |-> 15, mb_lookup |-> 15, cover |-> 15, acoustid |-> 20,
     sp_token |-> 15, sp_search |-> 15, lyrics |-> 10]

\* The upstreams of the pipeline; fingerprinting the normalized file is a
\* local computation.
Upstream(svc) == svc # "fpcalc"

\* C16: every request the call makes to an upstream (download, transcode,
\* fingerprint service, metadata database, commercial catalog, lyrics
\* service) has a timeout, so that an upstream that never answers fails the
\* stage instead of holding the call for ever.
C16_EveryRequestTimed ==
    \A k \in 1..Len(calls) :
        Upstream(calls[k].svc) => calls[k].svc \in DOMAIN Timeouts

---------------------------------------------------------------------------
(* C17: what the lyrics lookup is keyed by. *)

\* The artist list of the candidate: the credit of the resolved recording, or
\* the artists of the commercial hit the fallback took.
CandidateCredit == IF Resolved THEN pick.credit ELSE item.artists

\* The name of the first entry that has one; empty when there is none.
FirstCredited(credit) ==
    LET names == SelectSeq(credit, Truthy)
    IN  IF names = <<>> THEN <<>> ELSE names[1]

\* C17: every lyrics request is keyed by the whole name of the first credited
\* artist of the candidate and by the candidate's title, both non-empty: the
\* artist sent is never a part of a name, and never a placeholder standing for
\* a candidate without artists.
C17_LyricsKey ==
    \A k \in 1..Len(calls) :
        calls[k].svc = "lyrics" =>
            /\ calls[k].arg[1] = FirstCredited(CandidateCredit)
            /\ calls[k].arg[2] = (IF Resolved THEN pick.title ELSE title)
            /\ Truthy(calls[k].arg[1])
            /\ Truthy(calls[k].arg[2])

---------------------------------------------------------------------------
(* C18: the audio path resolves by fingerprint only. *)

\* Request k was made after a fingerprint match had given a candidate: after
\* the fingerprint service answered and the lookup of its recording answered.
AfterFingerprintMatch(k) ==
    \E i, j \in 1..Len(calls) :
        /\ i < j /\ j < k
        /\ calls[i].svc = "acoustid" /\ calls[i].resp = "200"
        /\ calls[j].svc = "mb_lookup" /\ calls[j].resp = "200"

\* C18: a call of the audio path never asks the metadata database's text
\* search and never enters the text fallback, and it asks the commercial
\* catalog (token or search) only after a fingerprint match has given it a
\* candidate.
C18_AudioNeverSearchesByText ==
    entry = "audio" =>
        /\ ~Made("mb_search")
        /\ pc \notin {"mb_search", "fb_token", "fb_search"}
        /\ \A k \in 1..Len(calls) :
              calls[k].svc \in {"sp_token", "sp_search"} =>
                  Resolved /\ AfterFingerprintMatch(k)

\* An audio call that asked the commercial catalog and has ended.
C18_Witness ==
    /\ entry = "audio"
    /\ MadeWith("sp_search", {"200"})
    /\ Terminal

---------------------------------------------------------------------------
(* C19: what counts as a URL, and where it is routed. *)

\* Texts that are URLs: after the surrounding whitespace, http:// or https://
\* in any case.
UrlTexts ==
    { UrlInput, UrlInputUpper, UrlInputUpper \o <<" ">>, Strip(UrlInputUpper),
      <<"\t", "h", "T", "t", "P", "s", ":", "/", "/", "\n">>,
      <<"h", "t", "t", "p", ":", "/", "/">> }

\* Texts that are not: the empty string, titles, paths, and near misses of
\* the prefix.
PlainTexts ==
    { <<>>, <<" ">>, PathInput, LocalPath,
      <<"h", "t", "t", "p", ":", "/", "x">>,
      <<"h", "t", "t", "p", "s", "/", "/", "x">>,
      <<"x", "h", "t", "t", "p", ":", "/", "/", "x">>,
      <<"h", " ", "t", "t", "p", ":", "/", "/", "x">>,
      <<"f", "t", "p", ":", "/", "/", "x">> } \cup Queries

\* The first request of the call was the download of its input / the
\* transcode of its input as a local file.
Downloads == calls # <<>> => calls[1].svc = "yt_dlp" /\ calls[1].arg = <<input>>
Transcodes == calls # <<>> => calls[1].svc = "ffmpeg" /\ calls[1].arg = <<input>>

\* C19: is_url holds of exactly the texts that, stripped, start with http://
\* or https:// in any case, and not of the empty string or a title; the audio
\* entry point downloads a URL and transcodes any other input as a local
\* path; handle_text_or_link passes a URL to the audio entry point and any
\* other text to the text search, and handle_media passes its local path.
C19_UrlRouting ==
    /\ \A t \in UrlTexts : is_url(t)
    /\ \A t \in PlainTexts : ~is_url(t)
    /\ input \in UrlTexts \cup PlainTexts
    /\ entry = "audio" =>
          IF input \in UrlTexts
          THEN Downloads /\ pc # "file_ffmpeg"
          ELSE Transcodes /\ pc \notin {"url_download", "url_transcode", "url_copy"}
    /\ (bot.handler = "text" /\ entry # "none") =>
          /\ input = bot.text
          /\ entry = IF bot.text \in UrlTexts THEN "audio" ELSE "text"
    /\ (bot.handler = "media" /\ entry # "none") =>
          /\ entry = "audio"
          /\ input = bot.local_path
          /\ Transcodes

\* A link written in upper case between spaces, sent as a text, was downloaded.
C19_Witness ==
    /\ bot.handler = "text"
    /\ bot.text = Strip(UrlInputUpper)
    /\ MadeWith("yt_dlp", {"ok"})

---------------------------------------------------------------------------
(* C20: the upload's temporary file. *)

\* C20: when handle_media has finished after downloading the upload into its
\* temporary file, that file is gone: whether the identification returned a
\* result, returned None or raised, and whether or not the reply could be
\* sent.
C20_UploadRemoved ==
    (bot.handler = "media" /\ bot.at = "finished" /\ bot.local_path # None) =>
        bot.local_path \notin files

===========================================================================
